---- MODULE Spec2Model ----
(***************************************************************************)
(* MinRide data generator (src/DataGenerator/main.cpp).                    *)
(*                                                                         *)
(* Two specifications are given.                                           *)
(*   Spec    one run of main(), one step per stream insertion.  rand() is  *)
(*           drawn from RandSample, every loop runs its full count.        *)
(*   SpecFn  the generation expressions of the three loop bodies, each     *)
(*           applied once to every value rand() can return (0..RAND_MAX).  *)
(*                                                                         *)
(* Numbers.  A double is the record [t, f] standing for                    *)
(*           (t + f / RAND_MAX) / 10,  t an integer, f in 0..RAND_MAX-1,   *)
(* which holds every value min + r/RAND_MAX*(max-min) exactly when min and *)
(* max are multiples of 0.1.  Arithmetic is exact; the binary rounding of  *)
(* the machine's doubles (relative error 2^-53) is not modelled.           *)
(*                                                                         *)
(* Operand evaluation order inside one << chain is unspecified in C++11;   *)
(* every rand() call is an independent choice here, so the order in which  *)
(* the draws of one row are taken does not change the set of rows.         *)
(***************************************************************************)
EXTENDS Integers, Sequences, FiniteSets, TLC

VARIABLES pc, i, fstate, ok, ff, prec, hdr, rows, iters, dist, tok, exitCode, res

vars == <<pc, i, fstate, ok, ff, prec, hdr, rows, iters, dist, tok, exitCode, res>>

mainVars == <<pc, i, fstate, ok, ff, prec, hdr, rows, iters, dist, tok, exitCode>>

\* ------------------------------------------------------------ configuration
SO_TAI_XE == 100

SO_KHACH_HANG == 100

SO_CHUYEN_DI == 500

\* <cstdlib>: the largest value rand() returns (the smallest the C standard
\* allows; products of rand() values stay inside TLC's integers).
RAND_MAX == 32767

\* <climits>
INT_MAX == 2147483647

\* How many of the lowest and of the highest rand() values Spec draws from.
SampleSpan == 1

Rand == 0..RAND_MAX

RandSample == (0..SampleSpan) \cup ((RAND_MAX - SampleSpan)..RAND_MAX)

HO == <<"Nguyen", "Tran", "Le", "Pham", "Hoang", "Vo", "Dang", "Bui", "Ngo", "Truong">>

TEN_DEM == <<"Van", "Thi", "Duc", "Minh", "Quang", "Thanh", "Manh", "Quoc", "Hong", "Tuan">>

TEN == <<"An", "Binh", "Cuong", "Dung", "Em", "Phong", "Giang", "Hai", "Khoa", "Lam",
         "Hoa", "Lan", "Linh", "Nga", "Huong", "Tam", "Tuan", "Hung", "Duc", "Thao">>

QUAN == <<"Quan 1", "Quan 3", "Quan 5", "Quan 7", "Quan 10",
          "Quan Binh Thanh", "Quan Go Vap", "Quan Thu Duc", "Quan Phu Nhuan", "Quan Tan Binh">>

Files == 1..3

\* ------------------------------------------------------------ utilities
\* Variant: the modulus forgets to subtract min (C4 depends on randomInt).
randomInt_nomin(min, max, r) == min + (r % (max + 1))

\* r is the value the rand() call inside returns.
randomInt(min, max, r) == min + (r % (max - min + 1))

\* Variant: division by RAND_MAX + 1, the half-open draw (C9 depends on
\* randomDouble).
randomDoubleHalfOpen(min10, max10, r) ==
    LET p == r * (max10 - min10)
    IN  [t |-> min10 + (p \div (RAND_MAX + 1)),
         f |-> ((p % (RAND_MAX + 1)) * RAND_MAX) \div (RAND_MAX + 1)]

\* min10, max10: min and max in tenths (3.5 is 35).
randomDouble(min10, max10, r) ==
    LET p == r * (max10 - min10)
    IN  [t |-> min10 + (p \div RAND_MAX), f |-> p % RAND_MAX]

\* round(): to the nearest integer, halves away from zero (arguments >= 0).
round(t, f) == IF 2 * f >= RAND_MAX THEN t + 1 ELSE t

\* Variant: the division by 10 is missing (C3 depends on lam_tron).
lam_tron_unscaled(x) == [t |-> 10 * round(x.t, x.f), f |-> 0]

\* round(x * 10) / 10: x * 10 is t + f/RAND_MAX.
lam_tron(x) == [t |-> round(x.t, x.f), f |-> 0]

\* x * k for an integer k >= 0.
Times(x, k) ==
    [t |-> (k * x.t) + ((k * x.f) \div RAND_MAX), f |-> (k * x.f) % RAND_MAX]

\* ------------------------------------------------------------ formatting
RECURSIVE Pow10(_)
Pow10(n) == IF n = 0 THEN 1 ELSE 10 * Pow10(n - 1)

\* operator<<(double) in fixed notation with precision p: the text printed, as
\* [num, dec] for the decimal number num / 10^dec shown with dec fraction
\* digits.  The conversion rounds the exact value to the nearest, ties to even.
FormatFixed(x, p) ==
    IF p = 0
    THEN LET q   == x.t \div 10
             rem == x.t % 10
             up  == \/ rem > 5
                    \/ rem = 5 /\ x.f > 0
                    \/ rem = 5 /\ x.f = 0 /\ q % 2 = 1
         IN  [num |-> IF up THEN q + 1 ELSE q, dec |-> 0]
    ELSE LET s    == Pow10(p - 1)
             w    == (s * x.t) + ((s * x.f) \div RAND_MAX)
             remn == (s * x.f) % RAND_MAX
             up   == \/ 2 * remn > RAND_MAX
                     \/ 2 * remn = RAND_MAX /\ w % 2 = 1
         IN  [num |-> IF up THEN w + 1 ELSE w, dec |-> p]

\* operator<<(double) before any `fixed`: the default notation drops trailing
\* zeros (given for the default precision on one-decimal values; the program
\* writes no double before `fixed`).
FormatGeneral(x, p) ==
    IF x.t % 10 = 0 /\ x.f = 0
    THEN [num |-> x.t \div 10, dec |-> 0]
    ELSE [num |-> round(x.t, x.f), dec |-> 1]

FormatDouble(x, floatfield, p) ==
    IF floatfield = "fixed" THEN FormatFixed(x, p) ELSE FormatGeneral(x, p)

\* ------------------------------------------------------------ row expressions
sinh_ten(r1, r2, r3) ==
    <<HO[randomInt(0, 9, r1) + 1], TEN_DEM[randomInt(0, 9, r2) + 1],
      TEN[randomInt(0, 19, r3) + 1]>>

\* Variant: the hour is drawn from 0..24 (C6 depends on sinh_timestamp).
sinh_timestamp_24(ngay_truoc, r) == (ngay_truoc * 86400) + (randomInt(0, 24, r) * 3600)

\* seconds subtracted from time(nullptr); r is the rand() of randomInt(0, 23)
sinh_timestamp(ngay_truoc, r) == (ngay_truoc * 86400) + (randomInt(0, 23, r) * 3600)

DriverRating(r) == lam_tron(randomDouble(35, 50, r))

Coord(r) == lam_tron(randomDouble(0, 100, r))

TotalRides(r) == randomInt(10, 80, r)

District(r) == QUAN[randomInt(0, 9, r) + 1]

\* Variant: the distance is kept unrounded (C5 depends on RideDist).
RideDistRaw(r) == randomDouble(20, 120, r)

RideDist(r) == lam_tron(randomDouble(20, 120, r))

RideFare(d) == Times(d, 12000)

CustomerRef(r) == randomInt(1, SO_KHACH_HANG, r)

DriverRef(r) == randomInt(1, SO_TAI_XE, r)

NgayTruoc(r) == randomInt(1, 30, r)

\* Variant: < in place of <= (C7 depends on StatusOf).
StatusOfStrict(draw) == IF draw < 8 THEN "CONFIRMED" ELSE "CANCELLED"

StatusOf(draw) == IF draw <= 8 THEN "CONFIRMED" ELSE "CANCELLED"

RideStatus(r) == StatusOf(randomInt(1, 10, r))

\* ------------------------------------------------------------ state
Zero == [t |-> 0, f |-> 0]

NoText == <<>>

\* The last insertion executed: the stream, the field, the text produced under
\* the stream's notation and precision at that moment, and whether it reached
\* the file (an insertion into a stream that failed to open writes nothing).
Token(f, kind, num, dec, text) ==
    [file |-> f, kind |-> kind, num |-> num, dec |-> dec, text |-> text,
     ff |-> ff[f], prec |-> prec[f], landed |-> ok[f]]

NoToken ==
    [file |-> 0, kind |-> "none", num |-> 0, dec |-> 0, text |-> NoText,
     ff |-> "general", prec |-> 6, landed |-> FALSE]

NoRes ==
    [fn |-> "none", r |-> 0, lo |-> 0, hi |-> 0, val |-> Zero, n |-> 0,
     tk |-> [num |-> 0, dec |-> 0], tk2 |-> [num |-> 0, dec |-> 0], text |-> ""]

Count(f) == CASE f = 1 -> SO_TAI_XE [] f = 2 -> SO_KHACH_HANG [] OTHER -> SO_CHUYEN_DI

Init ==
    /\ pc = "open1"
    /\ i = 0
    /\ fstate = [f \in Files |-> "unopened"]
    /\ ok = [f \in Files |-> FALSE]
    /\ ff = [f \in Files |-> "general"]
    /\ prec = [f \in Files |-> 6]
    /\ hdr = [f \in Files |-> 0]
    /\ rows = [f \in Files |-> 0]
    /\ iters = [f \in Files |-> 0]
    /\ dist = Zero
    /\ tok = NoToken
    /\ exitCode = -1
    /\ res = NoRes

\* ------------------------------------------------------------ stream steps
\* Variant: a failed open is checked and ends the run with exit code 1 (C8
\* depends on Open).
OpenChecked(f, at, next) ==
    /\ pc = at
    /\ \E good \in BOOLEAN :
          /\ ok' = [ok EXCEPT ![f] = good]
          /\ fstate' = [fstate EXCEPT ![f] = IF good THEN "open" ELSE "failed"]
          /\ pc' = IF good THEN next ELSE "done"
          /\ exitCode' = IF good THEN exitCode ELSE 1
    /\ UNCHANGED <<i, ff, prec, hdr, rows, iters, dist, tok, res>>

\* ofstream f(path): the open succeeds or fails (missing directory); a failed
\* open sets failbit and nothing is checked.
Open(f, at, next) ==
    /\ pc = at
    /\ \E good \in BOOLEAN :
          /\ ok' = [ok EXCEPT ![f] = good]
          /\ fstate' = [fstate EXCEPT ![f] = IF good THEN "open" ELSE "failed"]
    /\ pc' = next
    /\ UNCHANGED <<i, ff, prec, hdr, rows, iters, dist, tok, exitCode, res>>

\* f << "<header>\n"
Header(f, at, next) ==
    /\ pc = at
    /\ tok' = Token(f, "header", 0, 0, NoText)
    /\ hdr' = [hdr EXCEPT ![f] = IF ok[f] THEN @ + 1 ELSE @]
    /\ pc' = next
    /\ UNCHANGED <<i, fstate, ok, ff, prec, rows, iters, dist, exitCode, res>>

\* for (int i = 1; ...
ForInit(at, next) ==
    /\ pc = at
    /\ i' = 1
    /\ pc' = next
    /\ UNCHANGED <<fstate, ok, ff, prec, hdr, rows, iters, dist, tok, exitCode, res>>

\* Variant: i < N (C1 depends on ForTest).
ForTestStrict(f, at, body, after) ==
    /\ pc = at
    /\ IF i < Count(f)
       THEN /\ pc' = body
            /\ iters' = [iters EXCEPT ![f] = @ + 1]
       ELSE /\ pc' = after
            /\ UNCHANGED iters
    /\ UNCHANGED <<i, fstate, ok, ff, prec, hdr, rows, dist, tok, exitCode, res>>

\* ... i <= N; ...
ForTest(f, at, body, after) ==
    /\ pc = at
    /\ IF i <= Count(f)
       THEN /\ pc' = body
            /\ iters' = [iters EXCEPT ![f] = @ + 1]
       ELSE /\ pc' = after
            /\ UNCHANGED iters
    /\ UNCHANGED <<i, fstate, ok, ff, prec, hdr, rows, dist, tok, exitCode, res>>

\* f << <an int or a string> << ","
Insert(f, at, next, kind, num, text) ==
    /\ pc = at
    /\ tok' = Token(f, kind, num, 0, text)
    /\ pc' = next
    /\ UNCHANGED <<i, fstate, ok, ff, prec, hdr, rows, iters, dist, exitCode, res>>

\* f << <a double> << ","
InsertDouble(f, at, next, kind, x) ==
    /\ pc = at
    /\ LET t == FormatDouble(x, ff[f], prec[f])
       IN  tok' = Token(f, kind, t.num, t.dec, NoText)
    /\ pc' = next
    /\ UNCHANGED <<i, fstate, ok, ff, prec, hdr, rows, iters, dist, exitCode, res>>

\* f << fixed: sets the flag whatever the stream's state.
Fixed(f, at, next) ==
    /\ pc = at
    /\ ff' = [ff EXCEPT ![f] = "fixed"]
    /\ pc' = next
    /\ UNCHANGED <<i, fstate, ok, prec, hdr, rows, iters, dist, tok, exitCode, res>>

\* f << setprecision(p): sets the precision whatever the stream's state.
SetPrecision(f, at, next, p) ==
    /\ pc = at
    /\ prec' = [prec EXCEPT ![f] = p]
    /\ pc' = next
    /\ UNCHANGED <<i, fstate, ok, ff, hdr, rows, iters, dist, tok, exitCode, res>>

\* f << "\n"; then the loop's i++
EndRow(f, at, next) ==
    /\ pc = at
    /\ tok' = Token(f, "newline", 0, 0, NoText)
    /\ rows' = [rows EXCEPT ![f] = IF ok[f] THEN @ + 1 ELSE @]
    /\ i' = i + 1
    /\ pc' = next
    /\ UNCHANGED <<fstate, ok, ff, prec, hdr, iters, dist, exitCode, res>>

\* f.close()
Close(f, at, next) ==
    /\ pc = at
    /\ fstate' = [fstate EXCEPT ![f] = "closed"]
    /\ pc' = next
    /\ UNCHANGED <<i, ok, ff, prec, hdr, rows, iters, dist, tok, exitCode, res>>

\* ------------------------------------------------------------ main: drivers
OpenDrivers == Open(1, "open1", "hdr1")

HeaderDrivers == Header(1, "hdr1", "for1")

ForInitDrivers == ForInit("for1", "test1")

ForTestDrivers == ForTest(1, "test1", "d_id", "close1")

WriteDriverId == Insert(1, "d_id", "d_name", "ID", i, NoText)

WriteDriverName ==
    \E r1 \in RandSample, r2 \in RandSample, r3 \in RandSample :
        Insert(1, "d_name", "d_fixed", "Name", 0, sinh_ten(r1, r2, r3))

DriverFixed == Fixed(1, "d_fixed", "d_prec")

DriverPrecision == SetPrecision(1, "d_prec", "d_rating", 1)

WriteDriverRating ==
    \E r \in RandSample : InsertDouble(1, "d_rating", "d_x", "Rating", DriverRating(r))

WriteDriverX ==
    \E r \in RandSample : InsertDouble(1, "d_x", "d_y", "X", Coord(r))

WriteDriverY ==
    \E r \in RandSample : InsertDouble(1, "d_y", "d_rides", "Y", Coord(r))

WriteDriverTotalRides ==
    \E r \in RandSample : Insert(1, "d_rides", "d_nl", "TotalRides", TotalRides(r), NoText)

EndDriverRow == EndRow(1, "d_nl", "test1")

\* Variant: f1.close() is missing (C2 depends on CloseDrivers).
CloseDriversMissing ==
    /\ pc = "close1"
    /\ pc' = "open2"
    /\ UNCHANGED <<i, fstate, ok, ff, prec, hdr, rows, iters, dist, tok, exitCode, res>>

CloseDrivers == Close(1, "close1", "open2")

\* ------------------------------------------------------------ main: customers
OpenCustomers == Open(2, "open2", "hdr2")

HeaderCustomers == Header(2, "hdr2", "for2")

ForInitCustomers == ForInit("for2", "test2")

ForTestCustomers == ForTest(2, "test2", "c_id", "close2")

WriteCustomerId == Insert(2, "c_id", "c_name", "ID", i, NoText)

WriteCustomerName ==
    \E r1 \in RandSample, r2 \in RandSample, r3 \in RandSample :
        Insert(2, "c_name", "c_quan", "Name", 0, sinh_ten(r1, r2, r3))

WriteCustomerDistrict ==
    \E r \in RandSample : Insert(2, "c_quan", "c_fixed", "District", 0, <<District(r)>>)

CustomerFixed == Fixed(2, "c_fixed", "c_prec")

CustomerPrecision == SetPrecision(2, "c_prec", "c_x", 1)

WriteCustomerX ==
    \E r \in RandSample : InsertDouble(2, "c_x", "c_y", "X", Coord(r))

WriteCustomerY ==
    \E r \in RandSample : InsertDouble(2, "c_y", "c_nl", "Y", Coord(r))

EndCustomerRow == EndRow(2, "c_nl", "test2")

CloseCustomers == Close(2, "close2", "open3")

\* ------------------------------------------------------------ main: rides
OpenRides == Open(3, "open3", "hdr3")

HeaderRides == Header(3, "hdr3", "for3")

ForInitRides == ForInit("for3", "test3")

ForTestRides == ForTest(3, "test3", "r_dist", "close3")

\* double dist = lam_tron(randomDouble(2, 12));
DrawRideDist ==
    /\ pc = "r_dist"
    /\ \E r \in RandSample : dist' = RideDist(r)
    /\ pc' = "r_id"
    /\ UNCHANGED <<i, fstate, ok, ff, prec, hdr, rows, iters, tok, exitCode, res>>

WriteRideId == Insert(3, "r_id", "r_cust", "RideId", i, NoText)

WriteRideCustomer ==
    \E r \in RandSample : Insert(3, "r_cust", "r_drv", "CustomerId", CustomerRef(r), NoText)

WriteRideDriver ==
    \E r \in RandSample : Insert(3, "r_drv", "r_fixed", "DriverId", DriverRef(r), NoText)

RideFixed == Fixed(3, "r_fixed", "r_prec1")

\* Variant: setprecision(1) takes effect in the first row only (C10 depends on
\* RidePrecision1).
RidePrecision1Once ==
    SetPrecision(3, "r_prec1", "r_distw", IF i = 1 THEN 1 ELSE prec[3])

RidePrecision1 == SetPrecision(3, "r_prec1", "r_distw", 1)

WriteRideDistance == InsertDouble(3, "r_distw", "r_prec0", "Distance", dist)

RidePrecision0 == SetPrecision(3, "r_prec0", "r_fare", 0)

WriteRideFare == InsertDouble(3, "r_fare", "r_ts", "Fare", RideFare(dist))

\* the token's num is the number of seconds the timestamp lies before the
\* clock reading of the call
WriteRideTimestamp ==
    \E r1 \in RandSample, r2 \in RandSample :
        Insert(3, "r_ts", "r_status", "Timestamp", sinh_timestamp(NgayTruoc(r1), r2), NoText)

WriteRideStatus ==
    \E r \in RandSample : Insert(3, "r_status", "r_nl", "Status", 0, <<RideStatus(r)>>)

EndRideRow == EndRow(3, "r_nl", "test3")

CloseRides == Close(3, "close3", "ret")

\* return 0;
Return ==
    /\ pc = "ret"
    /\ exitCode' = 0
    /\ pc' = "done"
    /\ UNCHANGED <<i, fstate, ok, ff, prec, hdr, rows, iters, dist, tok, res>>

Next ==
    \/ OpenDrivers \/ HeaderDrivers \/ ForInitDrivers \/ ForTestDrivers
    \/ WriteDriverId \/ WriteDriverName \/ DriverFixed \/ DriverPrecision
    \/ WriteDriverRating \/ WriteDriverX \/ WriteDriverY \/ WriteDriverTotalRides
    \/ EndDriverRow \/ CloseDrivers
    \/ OpenCustomers \/ HeaderCustomers \/ ForInitCustomers \/ ForTestCustomers
    \/ WriteCustomerId \/ WriteCustomerName \/ WriteCustomerDistrict
    \/ CustomerFixed \/ CustomerPrecision \/ WriteCustomerX \/ WriteCustomerY
    \/ EndCustomerRow \/ CloseCustomers
    \/ OpenRides \/ HeaderRides \/ ForInitRides \/ ForTestRides
    \/ DrawRideDist \/ WriteRideId \/ WriteRideCustomer \/ WriteRideDriver
    \/ RideFixed \/ RidePrecision1 \/ WriteRideDistance \/ RidePrecision0
    \/ WriteRideFare \/ WriteRideTimestamp \/ WriteRideStatus
    \/ EndRideRow \/ CloseRides \/ Return

Spec == Init /\ [][Next]_vars

\* ------------------------------------------------------------ SpecFn
\* One generation expression of a loop body applied to one value r of
\* rand(), r ranging over all of 0..RAND_MAX; doubles are written as the loop
\* writes them (fixed, precision 1; the fare with precision 0).
Result(fn, r, lo, hi, val, n, tk, tk2, text) ==
    /\ res' = [fn |-> fn, r |-> r, lo |-> lo, hi |-> hi, val |-> val, n |-> n,
               tk |-> tk, tk2 |-> tk2, text |-> text]
    /\ UNCHANGED mainVars

NoTk == [num |-> 0, dec |-> 0]

Ranges == {<<35, 50>>, <<0, 100>>, <<20, 120>>}

FnRandomDouble ==
    /\ res.fn = "none"
    /\ \E r \in Rand, g \in Ranges :
          Result("randomDouble", r, g[1], g[2], randomDouble(g[1], g[2], r), 0, NoTk, NoTk, "")

FnDriverRating ==
    /\ res.fn = "none"
    /\ \E r \in Rand :
          Result("Rating", 0, 0, 0, DriverRating(r), 0,
                 FormatFixed(DriverRating(r), 1), NoTk, "")

FnCoord ==
    /\ res.fn = "none"
    /\ \E r \in Rand :
          Result("Coord", 0, 0, 0, Coord(r), 0, FormatFixed(Coord(r), 1), NoTk, "")

FnTotalRides ==
    /\ res.fn = "none"
    /\ \E r \in Rand : Result("TotalRides", 0, 0, 0, Zero, TotalRides(r), NoTk, NoTk, "")

FnCustomerRef ==
    /\ res.fn = "none"
    /\ \E r \in Rand : Result("CustomerId", 0, 0, 0, Zero, CustomerRef(r), NoTk, NoTk, "")

FnDriverRef ==
    /\ res.fn = "none"
    /\ \E r \in Rand : Result("DriverId", 0, 0, 0, Zero, DriverRef(r), NoTk, NoTk, "")

\* lines 100 and 102: the distance and the fare of one ride row
FnRideDistFare ==
    /\ res.fn = "none"
    /\ \E r \in Rand :
          LET d == RideDist(r)
          IN  Result("DistFare", 0, 0, 0, d, 0,
                     FormatFixed(d, 1), FormatFixed(RideFare(d), 0), "")

\* the status draw randomInt(1, 10) and the status written
FnRideStatus ==
    /\ res.fn = "none"
    /\ \E r \in Rand :
          Result("Status", 0, 0, 0, Zero, randomInt(1, 10, r), NoTk, NoTk, RideStatus(r))

\* the argument of sinh_timestamp: randomInt(1, 30)
FnNgayTruoc ==
    /\ res.fn = "none"
    /\ \E r \in Rand : Result("ngay_truoc", 0, 0, 0, Zero, NgayTruoc(r), NoTk, NoTk, "")

\* sinh_timestamp(ngay_truoc) with its own draw of the hour
FnTimestamp ==
    /\ res.fn = "ngay_truoc"
    /\ \E r \in Rand :
          Result("Timestamp", 0, res.n, 0, Zero, sinh_timestamp(res.n, r), NoTk, NoTk, "")

FnNext ==
    \/ FnRandomDouble \/ FnDriverRating \/ FnCoord \/ FnTotalRides
    \/ FnCustomerRef \/ FnDriverRef \/ FnRideDistFare \/ FnRideStatus
    \/ FnNgayTruoc \/ FnTimestamp

SpecFn == Init /\ [][FnNext]_vars

\* ============================================================ claims
FullCounts == [f \in Files |-> Count(f)]

\* C1: when main has finished and all three files opened, drivers.csv holds
\* SO_TAI_XE data rows, customers.csv SO_KHACH_HANG and rides.csv
\* SO_CHUYEN_DI; and every ID written to a file is one more than the number
\* of rows the file already holds, so the k-th row carries ID k.
C1_RowCountsAndIds ==
    /\ (pc = "done" /\ \A f \in Files : ok[f]) => rows = FullCounts
    /\ (tok.kind \in {"ID", "RideId"} /\ tok.landed) => tok.num = rows[tok.file] + 1
    /\ (tok.kind = "newline" /\ tok.landed) => rows[tok.file] = i - 1

C1_Witness ==
    /\ pc = "done"
    /\ \A f \in Files : ok[f]
    /\ rows[3] = SO_CHUYEN_DI

\* C2: at most one file is open at any time, a file is opened only after the
\* previous one has been closed, and a file holds its header line at most
\* once and before any of its data rows.
C2_FilesInOrder ==
    /\ Cardinality({f \in Files : fstate[f] = "open"}) <= 1
    /\ \A f \in 2..3 : fstate[f] # "unopened" => fstate[f - 1] = "closed"
    /\ \A f \in Files : hdr[f] <= 1 /\ (rows[f] > 0 => hdr[f] = 1)
    /\ \A f \in Files : (ok[f] /\ fstate[f] = "closed") => hdr[f] = 1
    /\ (tok.landed /\ tok.kind # "header") => hdr[tok.file] = 1

C2_Witness ==
    /\ fstate = <<"closed", "closed", "open">>
    /\ rows[2] = SO_KHACH_HANG
    /\ rows[3] > 0

\* C3: every driver rating is a multiple of 0.1 in [3.5, 5.0], every
\* coordinate a multiple of 0.1 in [0, 10], every TotalRides an integer in
\* [10, 80], for every value of rand().
C3_DriverRanges ==
    /\ res.fn = "Rating" => res.val.f = 0 /\ res.val.t >= 35 /\ res.val.t <= 50
    /\ res.fn = "Coord" => res.val.f = 0 /\ res.val.t >= 0 /\ res.val.t <= 100
    /\ res.fn = "TotalRides" => res.n >= 10 /\ res.n <= 80

C3_Witness == res.fn = "Rating" /\ res.val.t = 50 /\ res.tk = [num |-> 50, dec |-> 1]

C5_FareFromRoundedDistance ==
    res.fn = "DistFare" =>
        /\ res.tk2.dec = 0
        /\ res.tk2.num = res.tk.num * 1200
        /\ res.tk2.num >= 24000 /\ res.tk2.num <= 144000

C5_Witness == res.fn = "DistFare" /\ res.tk.num = 23 /\ res.tk2.num = 27600

\* C6: the seconds a ride's timestamp lies in the past are
\* ngay_truoc*86400 + h*3600 with ngay_truoc in 1..30 and h in 0..23: at least
\* 86400, less than 31*86400, and within the range of a 32-bit int.
C6_TimestampOffset ==
    /\ res.fn = "ngay_truoc" => res.n \in 1..30
    /\ res.fn = "Timestamp" =>
          /\ res.lo \in 1..30
          /\ \E h \in 0..23 : res.n = (res.lo * 86400) + (h * 3600)
          /\ res.n >= 86400 /\ res.n < 31 * 86400
          /\ res.n <= INT_MAX

C6_Witness == res.fn = "Timestamp" /\ res.n = (30 * 86400) + (23 * 3600)

\* C7: the status is CONFIRMED or CANCELLED, CONFIRMED exactly when the draw
\* randomInt(1, 10) is in 1..8, which is 8 of the 10 values of the draw.
C7_StatusDraw ==
    /\ res.fn = "Status" =>
          /\ res.n \in 1..10
          /\ res.text \in {"CONFIRMED", "CANCELLED"}
          /\ res.text = "CONFIRMED" <=> res.n \in 1..8
          /\ res.text = "CANCELLED" <=> res.n \in 9..10
    /\ Cardinality({d \in 1..10 : StatusOf(d) = "CONFIRMED"}) = 8

C7_Witness == res.fn = "Status" /\ res.n = 9 /\ res.text = "CANCELLED"

\* The pcs of one iteration of each loop, from the loop test on.
Body(f) ==
    CASE f = 1 -> <<"test1", "d_id", "d_name", "d_fixed", "d_prec", "d_rating",
                    "d_x", "d_y", "d_rides", "d_nl">>
      [] f = 2 -> <<"test2", "c_id", "c_name", "c_quan", "c_fixed", "c_prec",
                    "c_x", "c_y", "c_nl">>
      [] OTHER -> <<"test3", "r_dist", "r_id", "r_cust", "r_drv", "r_fixed",
                    "r_prec1", "r_distw", "r_prec0", "r_fare", "r_ts", "r_status",
                    "r_nl">>

Straight == <<"open1", "hdr1", "for1", "close1", "open2", "hdr2", "for2", "close2",
              "open3", "hdr3", "for3", "close3", "ret", "done">>

Range(q) == {q[k] : k \in 1..Len(q)}

Place(q, p) == CHOOSE k \in 1..Len(q) : q[k] = p

LoopOf(p) == CHOOSE f \in Files : p \in Range(Body(f))

\* steps from the first loop test of file f to its close
LoopSteps(f) == (Count(f) * Len(Body(f))) + 1

\* steps left when file f is about to be closed
RECURSIVE AfterLoop(_)
AfterLoop(f) == IF f = 3 THEN 2 ELSE 4 + LoopSteps(f + 1) + AfterLoop(f + 1)

\* steps left at a pc outside the loops
StraightSteps ==
    [p \in Range(Straight) |->
        CASE p = "done" -> 0
          [] p = "ret" -> 1
          [] p \in {"close1", "close2", "close3"} ->
                AfterLoop(Place(<<"close1", "close2", "close3">>, p))
          [] p \in {"for1", "for2", "for3"} ->
                LET f == Place(<<"for1", "for2", "for3">>, p)
                IN  AfterLoop(f) + LoopSteps(f) + 1
          [] p \in {"hdr1", "hdr2", "hdr3"} ->
                LET f == Place(<<"hdr1", "hdr2", "hdr3">>, p)
                IN  AfterLoop(f) + LoopSteps(f) + 2
          [] OTHER ->
                LET f == Place(<<"open1", "open2", "open3">>, p)
                IN  AfterLoop(f) + LoopSteps(f) + 3]

\* at a pc inside a loop: <<steps left after the loop's last test fails,
\* steps of one iteration, the loop's count, place in the iteration>>
LoopSteps4 ==
    [p \in UNION {Range(Body(f)) : f \in Files} |->
        LET f == LoopOf(p)
        IN  <<AfterLoop(f) + 1, Len(Body(f)), Count(f), Place(Body(f), p) - 1>>]

\* the number of steps main still has to take
Remaining ==
    IF pc \in DOMAIN StraightSteps
    THEN StraightSteps[pc]
    ELSE LET q == LoopSteps4[pc]
         IN  q[1] + ((q[3] + 1 - i) * q[2]) - q[4]

C8_State ==
    /\ exitCode \in {-1, 0}
    /\ pc = "done" <=> exitCode = 0
    /\ pc = "done" => iters = FullCounts
    /\ \A f \in Files : ~ok[f] => hdr[f] = 0 /\ rows[f] = 0
    /\ tok.landed => ok[tok.file]
    /\ pc # "done" => ENABLED Next
    /\ Remaining >= 0
    /\ Remaining = 0 <=> pc = "done"

\* C8: whichever of the three opens fail, main runs every loop in full,
\* writes nothing to a file that did not open, never stops before its return
\* and returns 0; every step brings it one step closer to the return, so
\* every run terminates.
C8_ExitZero == [][Remaining' = Remaining - 1]_vars /\ []C8_State

C8_Witness ==
    /\ pc = "done"
    /\ \A f \in Files : ~ok[f]
    /\ iters = FullCounts
    /\ exitCode = 0

InRange(x, lo, hi) == x.t >= lo /\ (x.t < hi \/ (x.t = hi /\ x.f = 0))

\* C9 as stated: randomDouble never returns max.
C9_HalfOpen ==
    res.fn = "randomDouble" => res.val.t >= res.lo /\ res.val.t < res.hi

\* C9 amended: min <= randomDouble(min, max) <= max, and the result is max
\* exactly when rand() returns RAND_MAX.
C9_Closed ==
    res.fn = "randomDouble" =>
        /\ InRange(res.val, res.lo, res.hi)
        /\ (res.val = [t |-> res.hi, f |-> 0]) <=> (res.r = RAND_MAX)
        /\ (res.val = [t |-> res.lo, f |-> 0]) <=> (res.r = 0)

C9_Witness ==
    /\ res.fn = "randomDouble"
    /\ res.r = RAND_MAX
    /\ res.lo = 20
    /\ res.val = [t |-> 120, f |-> 0]

\* C10: every rating, coordinate and distance is written in fixed notation
\* with precision 1 and every fare in fixed notation with precision 0, in
\* every row.
C10_FormatState ==
    /\ tok.kind \in {"Rating", "X", "Y", "Distance"} =>
          tok.ff = "fixed" /\ tok.prec = 1 /\ tok.dec = 1
    /\ tok.kind = "Fare" => tok.ff = "fixed" /\ tok.prec = 0 /\ tok.dec = 0
    /\ (pc = "r_prec1" /\ i > 1) => prec[3] = 0

C10_Witness ==
    /\ tok.kind = "Distance"
    /\ i = SO_CHUYEN_DI
    /\ tok.prec = 1
    /\ tok.num = 120

====
